---- MODULE Spec2Model ----
(***************************************************************************)
(* A model of PyFunceble's process manager (ProcessManagerCore): the       *)
(* manager's two worker lists, the shared exit event, and every public     *)
(* operation of the manager as one atomic action (the manager runs in a    *)
(* single process; the workers are separate processes that may exit or     *)
(* fail between two operations of the manager).                            *)
(*                                                                         *)
(* The manager's code is translated from core.py.  WorkerCore itself is    *)
(* not part of the sources: a worker is modelled from its contract         *)
(* (life-cycle Created / Running / Terminated, start, terminate, join,     *)
(* is_alive, exception, the three push operations).                       *)
(***************************************************************************)
EXTENDS Integers, Sequences, FiniteSets, TLC

VARIABLES
    created_workers,         \* list of worker ids, in list order
    running_workers,         \* list of worker ids, in list order
    workers,                 \* every worker object ever constructed; id = index
    max_workers,             \* the manager's _max_workers
    global_exit_event,       \* TRUE when the shared event is set
    WORKER_CLASS,            \* "WorkerCore" or "None"
    targeted_processing,     \* the manager's targeted_processing option
    input_datasets,
    output_datasets,
    configuration_datasets,
    op,                      \* the last operation and its arguments
    calls,                   \* what the last operation invoked, in order
    raised,                  \* "none", or the error the last operation raised
    ret,                     \* spawn_worker's returned worker id (0 = None)
    pre,                     \* the manager's state when the last operation began
    input_queue,             \* the shared input channel: envelopes, oldest first
    pc                       \* where the script of test.py stands

vars == << created_workers, running_workers, workers, max_workers,
           global_exit_event, WORKER_CLASS, targeted_processing,
           input_datasets, output_datasets,
           configuration_datasets, op, calls, raised, ret, pre,
           input_queue, pc >>

----------------------------------------------------------------------------
(* Bounds of the model *)

\* worker objects constructed over the whole run
MaxSpawned == 3
\* entries of running_workers (start may list a worker again)
MaxRunning == MaxSpawned

----------------------------------------------------------------------------
(* Names *)

STD_NAME == "pyfunceble-process-manager"

\* ProcessManagerCore.name
ManagerName == "ppm-" \o STD_NAME

\* f"ppm-{self.STD_NAME}-{len(self.created_workers) + 1}"
WorkerName(n) == "ppm-" \o STD_NAME \o "-" \o ToString(n)

\* Python's None, where a string is expected
None == "None"

\* the object self.manager.Event() made by the constructor; the variable
\* global_exit_event is its flag
ManagerEvent == "manager.Event()"

----------------------------------------------------------------------------
(* Lists *)

InList(x, s) == \E i \in 1..Len(s) : s[i] = x

FirstIndex(x, s) == CHOOSE i \in 1..Len(s) : s[i] = x /\ \A j \in 1..(i-1) : s[j] # x

\* list.remove(x): drops the first occurrence (the caller checks presence)
ListRemove(s, x) ==
    LET k == FirstIndex(x, s)
    IN  SubSeq(s, 1, k-1) \o SubSeq(s, k+1, Len(s))

Range(s) == { s[i] : i \in 1..Len(s) }

Count(x, s) == Cardinality({ i \in 1..Len(s) : s[i] = x })

\* the members of a set of worker ids as a list, in ascending id order
RECURSIVE SetToList(_)
SetToList(S) ==
    IF S = {} THEN << >>
    ELSE LET x == CHOOSE y \in S : \A z \in S : y <= z
         IN  << x >> \o SetToList(S \ {x})

\* max returning its second argument
Max_Second(a, b) == b

Max(a, b) == IF a >= b THEN a ELSE b

----------------------------------------------------------------------------
(* The state an operation works on: the manager's fields, the worker        *)
(* objects, the calls made so far and the error raised, if any.             *)

Self ==
    [ created  |-> created_workers,
      running  |-> running_workers,
      workers  |-> workers,
      max      |-> max_workers,
      exit     |-> global_exit_event,
      cls      |-> WORKER_CLASS,
      event    |-> ManagerEvent,
      targeted |-> targeted_processing,
      calls    |-> << >>,
      raised   |-> "none",
      ret      |-> 0,
      rc       |-> 1 ]

Ok(s) == s.raised = "none"

Raise(s, e) == IF Ok(s) THEN [s EXCEPT !.raised = e] ELSE s

Call(method, w, data, source, destination) ==
    [ method |-> method, worker |-> w, data |-> data,
      source_worker |-> source, destination_worker |-> destination,
      names |-> << >> ]

Log(s, c) == [s EXCEPT !.calls = Append(@, c)]

----------------------------------------------------------------------------
(* The worker contract *)

\* a worker right after WORKER_CLASS(name=..., global_exit_event=...,
\* targeted_processing=..., ...)
NewWorker(n, event, targeted) ==
    [ name |-> n, state |-> "Created", exception |-> FALSE, starts |-> 0,
      global_exit_event |-> event, targeted_processing |-> targeted ]

\* worker.concurrent_workers_names = names: the manager only ever writes
\* this field, so the model keeps the assignment in the record of calls
WorkerSetConcurrent(s, w, concurrent) ==
    Log(s, [ Call("concurrent_workers_names", w, None, None, None)
               EXCEPT !.names = concurrent ])

\* worker.is_alive()
IsAlive(s, w) == s.workers[w].state = "Running"

\* worker.start(): Created -> Running
WorkerStart(s, w) ==
    Log([s EXCEPT !.workers[w].state = IF @ = "Created" THEN "Running" ELSE @,
                  !.workers[w].starts = IF @ < 2 THEN @ + 1 ELSE @],
        Call("start", w, None, None, None))

\* worker.terminate(): forced termination.  A running process that has only
\* been signalled may still be alive when the call returns (lingers).
WorkerTerminate(s, w, lingers) ==
    Log([s EXCEPT !.workers[w].state =
                      IF @ = "Running" /\ lingers THEN "Running" ELSE "Terminated"],
        Call("terminate", w, None, None, None))

\* worker.join(): returns once a started worker has exited
WorkerJoin(s, w) ==
    Log([s EXCEPT !.workers[w].state = IF @ = "Running" THEN "Terminated" ELSE @],
        Call("join", w, None, None, None))

\* worker.push_to_input_queue / push_to_output_queues / push_to_configuration_queue
WorkerPush(s, method, w, data, source, destination) ==
    Log(s, Call(method, w, data, source, destination))

----------------------------------------------------------------------------
(* The manager: helpers *)

\* is_running with all() where the code has any()
is_running_AllAlive(s) ==
    IF s.running = << >> THEN FALSE
    ELSE \A i \in 1..Len(s.running) : IsAlive(s, s.running[i])

\* ProcessManagerCore.is_running
is_running(s) ==
    IF s.running = << >> THEN FALSE
    ELSE \E i \in 1..Len(s.running) : IsAlive(s, s.running[i])

\* the comprehension [x.name for x in <list>]
NamesOf(s, list) == [ i \in 1..Len(list) |-> s.workers[list[i]].name ]

\* spawn_worker without its guard on the size of running_workers
spawn_worker_NoGuard(s, start) ==
    IF ~Ok(s) THEN s
    ELSE IF s.cls = "None" THEN Raise(s, "TypeError")
    ELSE
        LET w  == Len(s.workers) + 1
            concurrent == IF is_running(s) THEN NamesOf(s, s.created)
                          ELSE NamesOf(s, s.running)
            worker == NewWorker(WorkerName(Len(s.created) + 1), s.event,
                                s.targeted)
            s0 == WorkerSetConcurrent([s EXCEPT !.workers = Append(@, worker)],
                                      w, concurrent)
            s1 == [s0 EXCEPT !.created = Append(@, w), !.ret = w]
        IN  IF start
            THEN LET s2 == WorkerStart(s1, w)
                 IN  [s2 EXCEPT !.running = Append(@, w)]
            ELSE s1

\* ProcessManagerCore.spawn_worker
spawn_worker(s, start) ==
    IF ~Ok(s) THEN s
    ELSE IF Len(s.running) >= s.max THEN [s EXCEPT !.ret = 0]
    ELSE IF s.cls = "None" THEN Raise(s, "TypeError")
    ELSE
        LET w  == Len(s.workers) + 1
            concurrent == IF is_running(s) THEN NamesOf(s, s.created)
                          ELSE NamesOf(s, s.running)
            worker == NewWorker(WorkerName(Len(s.created) + 1), s.event,
                                s.targeted)
            s0 == WorkerSetConcurrent([s EXCEPT !.workers = Append(@, worker)],
                                      w, concurrent)
            s1 == [s0 EXCEPT !.created = Append(@, w), !.ret = w]
        IN  IF start
            THEN LET s2 == WorkerStart(s1, w)
                 IN  [s2 EXCEPT !.running = Append(@, w)]
            ELSE s1

\* ProcessManagerCore.spawn_workers: for _ in range(self.max_workers)
RECURSIVE SpawnLoop(_, _, _)
SpawnLoop(s, n, start) ==
    IF n <= 0 \/ ~Ok(s) THEN s
    ELSE SpawnLoop(spawn_worker(s, start), n - 1, start)

spawn_workers(s, start) == [SpawnLoop(s, s.max, start) EXCEPT !.ret = 0]

\* the decorator spawning with start=True
ensure_worker_spawned_Started(s) ==
    IF ~Ok(s) THEN s
    ELSE IF s.created = << >> THEN spawn_workers(s, TRUE)
    ELSE s

\* the decorator ensure_worker_spawned
ensure_worker_spawned(s) ==
    IF ~Ok(s) THEN s
    ELSE IF s.created = << >> THEN spawn_workers(s, FALSE)
    ELSE s

\* a choice that ignores the cohort and takes the first created worker
Choice_FirstCreated(s, list, rnd) == s.created[1]

\* random.choice(workers), the draw taken from rnd at the cursor s.rc
Choice(s, list, rnd) == list[((rnd[s.rc] - 1) % Len(list)) + 1]

\* the broadcast loop starting one worker too late
RECURSIVE PushAll_SkipFirst(_, _, _, _, _, _)
PushAll_SkipFirst(s, method, list, i, data, source) ==
    IF i > Len(list) THEN s
    ELSE IF i = 1 THEN PushAll_SkipFirst(s, method, list, 2, data, source)
    ELSE PushAll_SkipFirst(WorkerPush(s, method, list[i], data, source,
                                      s.workers[list[i]].name),
                           method, list, i + 1, data, source)

\* for worker in workers: worker.push_to_...(data, source_worker=...,
\*                                           destination_worker=worker.name)
RECURSIVE PushAll(_, _, _, _, _, _)
PushAll(s, method, list, i, data, source) ==
    IF i > Len(list) THEN s
    ELSE PushAll(WorkerPush(s, method, list[i], data, source,
                            s.workers[list[i]].name),
                 method, list, i + 1, data, source)

\* the body shared by push_to_input_queue, push_to_output_queues and
\* push_to_configuration_queue, behind ensure_worker_spawned
Push(s0, method, data, source_worker, all_queues, rnd) ==
    LET s == ensure_worker_spawned(s0)
    IN  IF ~Ok(s) THEN s
        ELSE
          LET list   == IF is_running(s) THEN s.running ELSE s.created
              source == IF source_worker \in {None, ""} THEN ManagerName
                        ELSE source_worker
          IN  IF all_queues THEN PushAll(s, method, list, 1, data, source)
              ELSE IF list # << >>
              THEN [ WorkerPush(s, method, Choice(s, list, rnd), data, source, None)
                       EXCEPT !.rc = @ + 1 ]
              ELSE s

push_to_input_queue(s, data, source_worker, all_queues, rnd) ==
    Push(s, "push_to_input_queue", data, source_worker, all_queues, rnd)

push_to_output_queues(s, data, source_worker, all_queues, rnd) ==
    Push(s, "push_to_output_queues", data, source_worker, all_queues, rnd)

push_to_configuration_queue(s, data, source_worker, all_queues, rnd) ==
    Push(s, "push_to_configuration_queue", data, source_worker, all_queues, rnd)

\* push_stop_signal without all_queues
push_stop_signal_Single(s, source_worker) ==
    push_to_input_queue(s, "stop", source_worker, FALSE, << 1 >>)

\* ProcessManagerCore.push_stop_signal
push_stop_signal(s, source_worker) ==
    push_to_input_queue(s, "stop", source_worker, TRUE, << >>)

\* ProcessManagerCore.push_wait_signal
push_wait_signal(s, source_worker) ==
    push_to_input_queue(s, "wait", source_worker, TRUE, << >>)

\* ProcessManagerCore.terminate_worker
terminate_worker(s, w) ==
    IF ~Ok(s) THEN s
    ELSE
      LET s1 == WorkerJoin(WorkerTerminate(s, w, TRUE), w)
          s2 == IF InList(w, s1.running)
                THEN [s1 EXCEPT !.running = ListRemove(@, w)] ELSE s1
      IN  IF InList(w, s2.created)
          THEN [s2 EXCEPT !.created = ListRemove(@, w)] ELSE s2

\* terminate's loop without its is_alive() test
RECURSIVE TerminateLoop_NoSkip(_, _, _)
TerminateLoop_NoSkip(s, list, i) ==
    IF i > Len(list) \/ ~Ok(s) THEN s
    ELSE TerminateLoop_NoSkip(terminate_worker(s, list[i]), list, i + 1)

\* terminate's loop: for worker in workers: skip the ones that are not alive
RECURSIVE TerminateLoop(_, _, _)
TerminateLoop(s, list, i) ==
    IF i > Len(list) \/ ~Ok(s) THEN s
    ELSE IF ~IsAlive(s, list[i]) THEN TerminateLoop(s, list, i + 1)
    ELSE TerminateLoop(terminate_worker(s, list[i]), list, i + 1)

\* the flag flipped instead of raised
EventSet_Toggle(s, list) ==
    Log([s EXCEPT !.exit = ~@],
        Call("global_exit_event.set", 0, None, None, None))

\* random.choice(workers).global_exit_event.set(): the event is set through
\* the handle of one of the workers; the manager's flag is raised when that
\* handle is the manager's event, which holds for any choice when it holds
\* for all
EventSet(s, list) ==
    Log([s EXCEPT !.exit = IF \E i \in 1..Len(list) :
                                 s.workers[list[i]].global_exit_event = s.event
                            THEN TRUE ELSE @],
        Call("global_exit_event.set", 0, None, None, None))

\* terminate pushing "stop" before it terminates the workers
terminate_PushFirst(s) ==
    IF ~Ok(s) THEN s
    ELSE
      LET list == SetToList(Range(s.running) \cup Range(s.created))
          s1   == IF list # << >>
                  THEN EventSet(s, list)
                  ELSE s
          s2   == push_to_output_queues(s1, "stop", None, TRUE, << >>)
      IN  TerminateLoop(s2, list, 1)

\* ProcessManagerCore.terminate.  list(set(...)) has no defined order; the
\* model walks it by ascending id.  Every worker's global_exit_event is the
\* manager's own event (spawn_worker wires it), so the random handle through
\* which it is set does not matter.
terminate(s) ==
    IF ~Ok(s) THEN s
    ELSE
      LET list == SetToList(Range(s.running) \cup Range(s.created))
          s1   == IF list # << >>
                  THEN EventSet(s, list)
                  ELSE s
          s2   == TerminateLoop(s1, list, 1)
      IN  push_to_output_queues(s2, "stop", None, TRUE, << >>)

\* one round of wait's first loop, on the worker at the iterator's position i
WaitRunningBody(s, i) ==
    LET w  == s.running[i]
        s1 == WorkerTerminate(WorkerJoin(s, w), w, TRUE)
        s2 == [s1 EXCEPT !.running = ListRemove(@, w)]
        s3 == IF InList(w, s2.created)
              THEN [s2 EXCEPT !.created = ListRemove(@, w)]
              ELSE Raise(s2, "ValueError")
    IN  IF ~Ok(s3) THEN s3
        ELSE IF s3.workers[w].exception
        THEN Raise(terminate(s3), "WorkerError")
        ELSE s3

\* wait's first loop, for worker in self.running_workers, with the list
\* mutated under the iterator: i is the iterator's position (1-based)
RECURSIVE WaitRunning(_, _)
WaitRunning(s, i) ==
    IF ~Ok(s) \/ i > Len(s.running) THEN s
    ELSE WaitRunning(WaitRunningBody(s, i), i + 1)

\* wait's second loop, for worker in self.created_workers, same iterator
RECURSIVE WaitCreated(_, _, _)
WaitCreated(s, i, lingers) ==
    IF ~Ok(s) \/ i > Len(s.created) THEN s
    ELSE
      LET w  == s.created[i]
          s1 == WorkerTerminate(s, w, lingers)
          s2 == [s1 EXCEPT !.created = ListRemove(@, w)]
      IN  IF s2.workers[w].exception
          THEN Raise(terminate(s2), "WorkerError")
          ELSE WaitCreated(s2, i + 1, lingers)

\* wait without its closing terminate()
wait_NoFinalTerminate(s, lingers) ==
    WaitCreated(WaitRunning(s, 1), 1, lingers)

\* ProcessManagerCore.wait
wait(s, lingers) ==
    LET s1 == WaitRunning(s, 1)
        s2 == WaitCreated(s1, 1, lingers)
    IN  terminate(s2)

\* start's loop without self.running_workers.append(worker)
RECURSIVE StartLoop_NoAppend(_, _)
StartLoop_NoAppend(s, i) ==
    IF i > Len(s.created) THEN s
    ELSE StartLoop_NoAppend(WorkerStart(s, s.created[i]), i + 1)

\* start's loop: for worker in self.created_workers
RECURSIVE StartLoop(_, _)
StartLoop(s, i) ==
    IF i > Len(s.created) THEN s
    ELSE LET w == s.created[i]
         IN  StartLoop([WorkerStart(s, w) EXCEPT !.running = Append(@, w)], i + 1)

\* the dataset loop walking the list from its end
RECURSIVE PushDataset_Reversed(_, _, _, _, _, _)
PushDataset_Reversed(s, method, dataset, i, all_queues, rnd) ==
    IF i > Len(dataset) \/ ~Ok(s) THEN s
    ELSE PushDataset_Reversed(Push(s, method, dataset[Len(dataset) - i + 1],
                                   "ppm", all_queues, rnd),
                              method, dataset, i + 1, all_queues, rnd)

\* for data in <dataset>: self.push_to_...(data, source_worker="ppm")
RECURSIVE PushDataset(_, _, _, _, _, _)
PushDataset(s, method, dataset, i, all_queues, rnd) ==
    IF i > Len(dataset) \/ ~Ok(s) THEN s
    ELSE PushDataset(Push(s, method, dataset[i], "ppm", all_queues, rnd),
                     method, dataset, i + 1, all_queues, rnd)

\* start without ensure_worker_class_is_set
start_NoClassCheck(s0, rnd) ==
    LET s == ensure_worker_spawned(s0)
    IN  IF ~Ok(s) \/ is_running(s) THEN s
        ELSE
          LET s1 == StartLoop(s, 1)
              s2 == PushDataset(s1, "push_to_input_queue", input_datasets, 1,
                                FALSE, rnd)
              s3 == PushDataset(s2, "push_to_output_queues", output_datasets, 1,
                                FALSE, rnd)
          IN  PushDataset(s3, "push_to_configuration_queue",
                          configuration_datasets, 1, TRUE, rnd)

\* ProcessManagerCore.start, behind ensure_worker_class_is_set,
\* ensure_worker_spawned and ignore_if_running, in that order
start(s0, rnd) ==
    IF s0.cls = "None" THEN Raise(s0, "TypeError")
    ELSE
      LET s == ensure_worker_spawned(s0)
      IN  IF ~Ok(s) \/ is_running(s) THEN s
          ELSE
            LET s1 == StartLoop(s, 1)
                s2 == PushDataset(s1, "push_to_input_queue", input_datasets, 1,
                                  FALSE, rnd)
                s3 == PushDataset(s2, "push_to_output_queues", output_datasets, 1,
                                  FALSE, rnd)
            IN  PushDataset(s3, "push_to_configuration_queue",
                            configuration_datasets, 1, TRUE, rnd)

\* cpu_count keeping no CPU aside
cpu_count_NoReserve(available) == available

\* ProcessManagerCore.cpu_count
cpu_count(available) == IF available > 2 THEN available - 2 ELSE available

\* the max_workers setter; a value is [type |-> "int" or "str", v |-> ...]
set_max_workers(s, value) ==
    IF value.type # "int" THEN Raise(s, "TypeError")
    ELSE [s EXCEPT !.max = Max(1, value.v)]

----------------------------------------------------------------------------
(* Inputs *)

IntValue(v) == [type |-> "int", v |-> v]
NoneValue   == [type |-> "none", v |-> 0]
StrValue    == [type |-> "str", v |-> 0]

\* max_workers given to the constructor: None or an integer
ConstructorArgs == {NoneValue} \cup { IntValue(v) : v \in {-1, 0, 1, 2} }

\* values assigned to max_workers: integers and a non-integer ("1.0")
AssignedValues == {StrValue} \cup { IntValue(v) : v \in {-1, 0, 1, 2} }

\* os.cpu_count() of the host
HostCpus == {1, 2, 3, 4}

\* self._max_workers = max_workers or self.cpu_count
InitialMaxWorkers(arg, available) ==
    IF arg.type = "none" \/ arg.v = 0 THEN cpu_count(available) ELSE arg.v

\* targeted_processing given to the constructor: None (omitted) or a boolean
BoolValue(b) == [type |-> "bool", b |-> b]
NoBool       == [type |-> "none", b |-> FALSE]

TargetedArgs == {NoBool, BoolValue(TRUE), BoolValue(FALSE)}

\* self.targeted_processing = targeted_processing or True: Python's `or`
\* gives its left operand when that is truthy and its right one otherwise
InitialTargetedProcessing(arg) ==
    IF arg.type = "bool" /\ arg.b THEN arg.b ELSE TRUE

Payloads == {"test_data"}

Sources == {None, "", "producer"}

\* the draws of random.choice made by one operation
Draws(n) == [ 1..n -> 1..MaxSpawned ]

Snapshot(s) ==
    [ created |-> s.created, running |-> s.running, workers |-> s.workers,
      max |-> s.max, exit |-> s.exit ]

----------------------------------------------------------------------------
(* The state machine *)

Init ==
    /\ created_workers = << >>
    /\ running_workers = << >>
    /\ workers = << >>
    /\ global_exit_event = FALSE
    /\ WORKER_CLASS \in {"WorkerCore", "None"}
    /\ \E arg \in ConstructorArgs, available \in HostCpus,
          targeted \in TargetedArgs :
          /\ max_workers = InitialMaxWorkers(arg, available)
          /\ targeted_processing = InitialTargetedProcessing(targeted)
          /\ op = [name |-> "__init__",
                   args |-> [max_workers |-> arg, available |-> available,
                             targeted_processing |-> targeted]]
    /\ input_datasets = << "input_data", "more_input_data" >>
    /\ output_datasets = << "output_data" >>
    /\ configuration_datasets = << "configuration_data" >>
    /\ calls = << >>
    /\ raised = "none"
    /\ ret = 0
    /\ pre = [ created |-> << >>, running |-> << >>, workers |-> << >>,
               max |-> max_workers, exit |-> FALSE ]
    /\ input_queue = << >>
    /\ pc = [at |-> "api", i |-> 0]

\* no operation is under observation: the last one has returned (or raised)
\* and its record has been put away
Idle == op.name = "idle"

\* an operation of the manager took the state Self to s
Becomes(s, name, args) ==
    /\ Idle
    /\ Len(s.workers) <= MaxSpawned
    /\ Len(s.running) <= MaxRunning
    /\ created_workers' = s.created
    /\ running_workers' = s.running
    /\ workers' = s.workers
    /\ max_workers' = s.max
    /\ global_exit_event' = s.exit
    /\ calls' = s.calls
    /\ raised' = s.raised
    /\ ret' = s.ret
    /\ op' = [name |-> name, args |-> args]
    /\ pre' = Snapshot(Self)
    /\ UNCHANGED << WORKER_CLASS, targeted_processing, input_datasets,
                    output_datasets, configuration_datasets, input_queue, pc >>

Held == Range(created_workers) \cup Range(running_workers)

SpawnWorker ==
    \E st \in BOOLEAN :
        Becomes(spawn_worker(Self, st), "spawn_worker", [start |-> st])

SpawnWorkers ==
    \E st \in BOOLEAN :
        Becomes(spawn_workers(Self, st), "spawn_workers", [start |-> st])

Start ==
    \E rnd \in Draws(Len(input_datasets) + Len(output_datasets)) :
        Becomes(start(Self, rnd), "start", [rnd |-> rnd])

PushToInputQueue ==
    \E d \in Payloads, src \in Sources, all \in BOOLEAN, rnd \in Draws(1) :
        Becomes(push_to_input_queue(Self, d, src, all, rnd), "push_to_input_queue",
                [data |-> d, source_worker |-> src, all_queues |-> all])

PushToOutputQueues ==
    \E d \in Payloads, src \in Sources, all \in BOOLEAN, rnd \in Draws(1) :
        Becomes(push_to_output_queues(Self, d, src, all, rnd),
                "push_to_output_queues",
                [data |-> d, source_worker |-> src, all_queues |-> all])

PushToConfigurationQueue ==
    \E d \in Payloads, src \in Sources, all \in BOOLEAN, rnd \in Draws(1) :
        Becomes(push_to_configuration_queue(Self, d, src, all, rnd),
                "push_to_configuration_queue",
                [data |-> d, source_worker |-> src, all_queues |-> all])

PushStopSignal ==
    \E src \in Sources :
        Becomes(push_stop_signal(Self, src), "push_stop_signal",
                [source_worker |-> src])

PushWaitSignal ==
    \E src \in Sources :
        Becomes(push_wait_signal(Self, src), "push_wait_signal",
                [source_worker |-> src])

TerminateWorker ==
    \E w \in Held :
        Becomes(terminate_worker(Self, w), "terminate_worker", [worker |-> w])

Terminate == Becomes(terminate(Self), "terminate", [none |-> 0])

Wait ==
    \E lingers \in BOOLEAN :
        Becomes(wait(Self, lingers), "wait", [lingers |-> lingers])

SetMaxWorkers ==
    \E value \in AssignedValues :
        Becomes(set_max_workers(Self, value), "max_workers", [value |-> value])

\* a running worker exits on its own (it consumed "stop", or saw the exit event)
WorkerExits ==
    \E w \in Held :
        /\ workers[w].state = "Running"
        /\ Becomes([Self EXCEPT !.workers[w].state = "Terminated"],
                   "worker_exits", [worker |-> w])

\* a running worker's user logic fails: it stores the error and exits
WorkerFails ==
    \E w \in Held :
        /\ workers[w].state = "Running"
        /\ Becomes([Self EXCEPT !.workers[w].state = "Terminated",
                                !.workers[w].exception = TRUE],
                   "worker_fails", [worker |-> w])

\* a worker object the manager has dropped from both lists is out of its
\* reach for good (terminate_worker's del worker)
Dropped == [ name |-> "", state |-> "Terminated", exception |-> FALSE,
             starts |-> 0, global_exit_event |-> ManagerEvent,
             targeted_processing |-> TRUE ]

\* The caller moves on: the record of the last operation (op, calls, raised,
\* ret, pre) is put away, and so is what is left of the dropped workers.
\* The manager's own state is untouched.
Return ==
    /\ ~Idle
    /\ op' = [name |-> "idle", args |-> [none |-> 0]]
    /\ calls' = << >>
    /\ raised' = "none"
    /\ ret' = 0
    /\ workers' = [ w \in 1..Len(workers) |->
                      IF w \in Held THEN workers[w] ELSE Dropped ]
    /\ pre' = [ created |-> << >>, running |-> << >>, workers |-> << >>,
                max |-> 0, exit |-> FALSE ]
    /\ UNCHANGED << created_workers, running_workers, max_workers,
                    global_exit_event, WORKER_CLASS, targeted_processing,
                    input_datasets, output_datasets, configuration_datasets,
                    input_queue, pc >>

Next ==
    \/ Return
    \/ SpawnWorker
    \/ SpawnWorkers
    \/ Start
    \/ PushToInputQueue
    \/ PushToOutputQueues
    \/ PushToConfigurationQueue
    \/ PushStopSignal
    \/ PushWaitSignal
    \/ TerminateWorker
    \/ Terminate
    \/ Wait
    \/ SetMaxWorkers
    \/ WorkerExits
    \/ WorkerFails

Spec == Init /\ [][Next]_vars

----------------------------------------------------------------------------
(* The script of test.py, with the workers at work:                        *)
(*     proc_manager = NewProcessManager(max_workers=3, ...)                 *)
(*     proc_manager.start(); proc_manager.push_stop_signal()                *)
(*     proc_manager.wait()                                                  *)
(* The manager's calls are the operators above.  wait() is no longer one    *)
(* step: each join of its first loop blocks until the worker has exited.    *)
(* The workers follow the loop contract of the worker: they fetch from the  *)
(* shared input channel, put back an envelope addressed to another worker,  *)
(* exit on "stop", and hand any other payload to the user's logic.          *)

ScriptMaxWorkers == 3

IsInputPush(c) == c.method = "push_to_input_queue"

\* worker.push_to_input_queue(data, source_worker, destination_worker) puts
\* one envelope on the shared input channel
Envelope(c) ==
    [ data |-> c.data, source_worker |-> c.source_worker,
      destination_worker |-> c.destination_worker ]

Enqueued(queue, cs) ==
    LET pushed == SelectSeq(cs, IsInputPush)
    IN  queue \o [ i \in 1..Len(pushed) |-> Envelope(pushed[i]) ]

LiveInit ==
    /\ created_workers = << >>
    /\ running_workers = << >>
    /\ workers = << >>
    /\ global_exit_event = FALSE
    /\ WORKER_CLASS = "WorkerCore"
    /\ \E available \in HostCpus :
          max_workers = InitialMaxWorkers(IntValue(ScriptMaxWorkers), available)
    /\ targeted_processing = InitialTargetedProcessing(NoBool)
    /\ input_datasets \in { << >>, << "input_data" >>,
                          << "input_data", "more_input_data" >> }
    /\ output_datasets = << >>
    /\ configuration_datasets = << >>
    /\ op = [name |-> "__init__", args |-> [none |-> 0]]
    /\ calls = << >>
    /\ raised = "none"
    /\ ret = 0
    /\ pre = [ created |-> << >>, running |-> << >>, workers |-> << >>,
               max |-> max_workers, exit |-> FALSE ]
    /\ input_queue = << >>
    /\ pc = [at |-> "start", i |-> 0]

\* a step of the manager took the state Self to s
ScriptStep(s, name, next) ==
    /\ created_workers' = s.created
    /\ running_workers' = s.running
    /\ workers' = s.workers
    /\ max_workers' = s.max
    /\ global_exit_event' = s.exit
    /\ calls' = s.calls
    /\ raised' = s.raised
    /\ ret' = s.ret
    /\ op' = [name |-> name, args |-> [none |-> 0]]
    /\ pre' = Snapshot(Self)
    /\ input_queue' = Enqueued(input_queue, s.calls)
    /\ pc' = IF Ok(s) THEN next ELSE [at |-> "done", i |-> 0]
    /\ UNCHANGED << WORKER_CLASS, targeted_processing, input_datasets,
                    output_datasets, configuration_datasets >>

ScriptStart ==
    /\ pc.at = "start"
    /\ \E rnd \in Draws(Len(input_datasets) + Len(output_datasets)) :
          ScriptStep(start(Self, rnd), "start",
                     [at |-> "push_stop_signal", i |-> 0])

ScriptPushStopSignal ==
    /\ pc.at = "push_stop_signal"
    /\ ScriptStep(push_stop_signal(Self, None), "push_stop_signal",
                  [at |-> "wait", i |-> 1])

\* one round of wait's first loop: worker.join() returns once the worker is
\* no longer alive
ScriptWaitJoin ==
    /\ pc.at = "wait"
    /\ pc.i <= Len(running_workers)
    /\ ~IsAlive(Self, running_workers[pc.i])
    /\ ScriptStep(WaitRunningBody(Self, pc.i), "wait",
                  [at |-> "wait", i |-> pc.i + 1])

\* the rest of wait(): its second loop and the closing terminate(), which
\* wait for nothing (terminate_worker joins a worker it has just killed)
ScriptWaitFinish ==
    /\ pc.at = "wait"
    /\ pc.i > Len(running_workers)
    /\ \E lingers \in BOOLEAN :
          ScriptStep(terminate(WaitCreated(Self, 1, lingers)), "wait",
                     [at |-> "done", i |-> 0])

ManagerStep ==
    ScriptStart \/ ScriptPushStopSignal \/ ScriptWaitJoin \/ ScriptWaitFinish

\* worker w is running and the channel has an envelope for it to fetch
CanFetch(w) ==
    /\ w <= Len(workers)
    /\ workers[w].state = "Running"
    /\ input_queue # << >>

\* targeted processing: the envelope at the head is addressed to another worker
ForAnother(w) ==
    /\ workers[w].targeted_processing
    /\ Head(input_queue).destination_worker # None
    /\ Head(input_queue).destination_worker # workers[w].name

WorkerRequeues(w) ==
    /\ CanFetch(w)
    /\ ForAnother(w)
    /\ input_queue' = Append(Tail(input_queue), Head(input_queue))
    /\ UNCHANGED << created_workers, running_workers, workers, max_workers,
                    global_exit_event, WORKER_CLASS, targeted_processing,
                    input_datasets, output_datasets, configuration_datasets,
                    op, calls, raised, ret, pre, pc >>

WorkerStops(w) ==
    /\ CanFetch(w)
    /\ ~ForAnother(w)
    /\ Head(input_queue).data = "stop"
    /\ input_queue' = Tail(input_queue)
    /\ workers' = [workers EXCEPT ![w].state = "Terminated"]
    /\ UNCHANGED << created_workers, running_workers, max_workers,
                    global_exit_event, WORKER_CLASS, targeted_processing,
                    input_datasets, output_datasets, configuration_datasets,
                    op, calls, raised, ret, pre, pc >>

WorkerProcesses(w) ==
    /\ CanFetch(w)
    /\ ~ForAnother(w)
    /\ Head(input_queue).data \notin {"stop", "wait"}
    /\ input_queue' = Tail(input_queue)
    /\ UNCHANGED << created_workers, running_workers, workers, max_workers,
                    global_exit_event, WORKER_CLASS, targeted_processing,
                    input_datasets, output_datasets, configuration_datasets,
                    op, calls, raised, ret, pre, pc >>

LiveNext ==
    \/ ScriptStart
    \/ ScriptPushStopSignal
    \/ ScriptWaitJoin
    \/ ScriptWaitFinish
    \/ \E w \in 1..ScriptMaxWorkers : WorkerRequeues(w)
    \/ \E w \in 1..ScriptMaxWorkers : WorkerStops(w)
    \/ \E w \in 1..ScriptMaxWorkers : WorkerProcesses(w)

\* the manager's next step is not blocked: it is not in a join on a worker
\* that is still alive (the enabling condition of ManagerStep)
ManagerCanStep ==
    \/ pc.at \in {"start", "push_stop_signal"}
    \/ /\ pc.at = "wait"
       /\ \/ pc.i > Len(running_workers)
          \/ ~IsAlive(Self, running_workers[pc.i])

\* WF_vars(ManagerStep), with the enabling condition written out
ManagerRuns == []<>(~ManagerCanStep) \/ []<><<ManagerStep>>_vars

\* Fair scheduling: the manager's process keeps running; a worker that can
\* keep fetching a payload does fetch it; and a worker to which the channel
\* offers its own "stop" again and again takes it in the end (the other
\* workers may fetch it first and put it back any number of times, but not
\* for ever).
LiveSpec ==
    /\ LiveInit
    /\ [][LiveNext]_vars
    /\ ManagerRuns
    /\ \A w \in 1..ScriptMaxWorkers : WF_vars(WorkerProcesses(w))
    /\ \A w \in 1..ScriptMaxWorkers : SF_vars(WorkerStops(w))

----------------------------------------------------------------------------
(* Reading the record of the last operation *)

PreHeld == Range(pre.created) \cup Range(pre.running)

\* positions in calls of the invocations of `method` on worker w
CallsOf(method, w) ==
    { i \in 1..Len(calls) : calls[i].method = method /\ calls[i].worker = w }

PushMethods ==
    {"push_to_input_queue", "push_to_output_queues", "push_to_configuration_queue"}

Returned(name) == op.name = name /\ raised = "none"

\* some entry of running_workers was alive when the last operation began
SomeRunningAliveBefore ==
    \E i \in 1..Len(pre.running) : pre.workers[pre.running[i]].state = "Running"

\* some entry of running_workers is alive now
SomeRunningAlive ==
    \E i \in 1..Len(running_workers) : workers[running_workers[i]].state = "Running"

\* the list a push dispatches over
Cohort == IF SomeRunningAlive THEN running_workers ELSE created_workers

----------------------------------------------------------------------------
(* C1 *)

\* C1: in every reachable state the number of workers in running_workers is
\* at most max_workers.  Stated step by step, so that what refutes it is an
\* operation on the pool and not a max_workers chosen below the pool's size:
\* an operation other than an assignment to max_workers that begins with
\* |running_workers| <= max_workers (and max_workers >= 1) ends with it.
C1_RunningAtMostMax ==
    (/\ ~Idle /\ op.name \notin {"__init__", "max_workers"}
     /\ pre.max >= 1 /\ Len(pre.running) <= pre.max)
        => Len(running_workers) <= max_workers

(* C2 *)

C3_WaitJoinsBeforeTerminate ==
    Returned("wait")
        => \A w \in Range(pre.running) :
             /\ CallsOf("join", w) # {}
             /\ \A k \in CallsOf("terminate", w) :
                  \E j \in CallsOf("join", w) : j < k

(* C4 *)

\* C4: if a worker the manager holds has a stored exception when wait() is
\* called, wait() raises a worker's stored error.
C4_WaitRaisesStoredError ==
    (op.name = "wait" /\ \E w \in PreHeld : pre.workers[w].exception)
        => raised = "WorkerError"

(* C5 *)

\* C5: whenever wait() raises a worker's stored error, the global exit event
\* is set and no worker that was in the pool when wait() was called is alive.
C5_RaiseAfterFullTeardown ==
    (op.name = "wait" /\ raised = "WorkerError")
        => /\ global_exit_event
           /\ \A w \in PreHeld : workers[w].state # "Running"

(* C6 *)

\* C6: terminate() on an empty pool pushes "stop" to the output channels and
\* leaves created_workers and running_workers empty.  Stated for a manager
\* whose worker class is bound and whose call returns normally.
C6_TerminateOnEmptyPool ==
    (/\ Returned("terminate") /\ WORKER_CLASS # "None"
     /\ pre.created = << >> /\ pre.running = << >>)
        => /\ created_workers = << >>
           /\ running_workers = << >>

(* C7 *)

\* C7: with one running worker whose exception slot holds an error, wait()
\* raises it, join and terminate have each been invoked once on the worker,
\* and both lists are empty afterwards.
C7_WaitOneFailedWorker ==
    (/\ op.name = "wait"
     /\ Len(pre.running) = 1 /\ pre.created = pre.running
     /\ pre.workers[pre.running[1]].exception)
        => /\ raised = "WorkerError"
           /\ Cardinality(CallsOf("join", pre.running[1])) = 1
           /\ Cardinality(CallsOf("terminate", pre.running[1])) = 1
           /\ created_workers = << >>
           /\ running_workers = << >>

(* C8 *)

\* C8: start() called while a worker of running_workers is alive does
\* nothing: it spawns no worker, starts none, pushes nothing, and leaves
\* created_workers and running_workers as they were.
C8_StartWhileRunningIsNoOp ==
    (op.name = "start" /\ SomeRunningAliveBefore)
        => /\ raised = "none"
           /\ calls = << >>
           /\ workers = pre.workers
           /\ created_workers = pre.created
           /\ running_workers = pre.running

\* start() on a pool with a dead and a live worker in running_workers
C8_Witness ==
    /\ op.name = "start" /\ SomeRunningAliveBefore
    /\ \E i \in 1..Len(pre.running) : pre.workers[pre.running[i]].state # "Running"
    /\ input_datasets # << >>

(* C9 *)

\* C9: no two distinct workers the manager holds at the same time have the
\* same name (the first half of the claim; the second, that the index in a
\* name is the worker's spawn order, fails whenever this one does).
C9_HeldNamesUnique ==
    \A v, w \in Held : v # w => workers[v].name # workers[w].name

(* C10 *)

\* C10: once terminate_worker, terminate or wait has returned or raised, no
\* worker whose termination it requested is in created_workers or
\* running_workers.
C10_TerminatedWorkersAreRemoved ==
    op.name \in {"terminate_worker", "terminate", "wait"}
        => \A w \in Held : CallsOf("terminate", w) = {}

(* C11 *)

\* C11: in every reachable state, every worker in running_workers that has
\* not terminated is also in created_workers.
C11_RunningLiveWorkersAreCreated ==
    \A i \in 1..Len(running_workers) :
        workers[running_workers[i]].state # "Terminated"
            => InList(running_workers[i], created_workers)

\* running_workers holds a live worker, which is in created_workers, next to
\* a terminated one that is no longer in created_workers
C11_Witness ==
    /\ \E i \in 1..Len(running_workers) :
          /\ workers[running_workers[i]].state = "Running"
          /\ InList(running_workers[i], created_workers)
    /\ \E i \in 1..Len(running_workers) :
          /\ workers[running_workers[i]].state = "Terminated"
          /\ ~InList(running_workers[i], created_workers)

(* C12 *)

\* C12: start() on a manager with max_workers = N (N >= 1, worker class
\* bound) and an empty pool first spawns N workers, then starts each of them
\* exactly once, and afterwards created_workers and running_workers both
\* hold these N workers.
C12_StartSpawnsThenStartsAll ==
    (/\ op.name = "start" /\ WORKER_CLASS # "None"
     /\ pre.created = << >> /\ pre.running = << >> /\ pre.max >= 1)
        => /\ raised = "none"
           /\ Len(workers) = Len(pre.workers) + pre.max
           /\ Len(created_workers) = pre.max
           /\ Len(running_workers) = pre.max
           /\ Range(created_workers) = (Len(pre.workers) + 1)..Len(workers)
           /\ Range(running_workers) = Range(created_workers)
           /\ \A w \in Range(created_workers) :
                 /\ Cardinality(CallsOf("start", w)) = 1
                 /\ workers[w].starts = 1
                 /\ workers[w].state = "Running"
           /\ \A i, j \in 1..Len(calls) :
                 (calls[i].method = "concurrent_workers_names"
                    /\ calls[j].method = "start") => i < j

\* start() on an empty pool with max_workers = 2, after earlier workers
C12_Witness ==
    /\ op.name = "start" /\ WORKER_CLASS # "None"
    /\ pre.created = << >> /\ pre.running = << >> /\ pre.max = 2
    /\ Len(pre.workers) >= 1
    /\ Len(running_workers) = 2

(* C13 *)

\* the source_worker an envelope carries: the caller's value, or the
\* manager's name when the caller gave none or an empty one
ExpectedSource ==
    IF op.args.source_worker \in {None, ""} THEN "ppm-" \o STD_NAME
    ELSE op.args.source_worker

\* C13: push_to_input_queue(d) or push_to_output_queues(d) without all_queues
\* on a non-empty pool invokes that push operation on exactly one worker,
\* exactly once, with payload d, no destination_worker and a non-empty
\* source_worker (the caller's, or the manager's name); the worker is one of
\* running_workers if some running worker is alive, of created_workers
\* otherwise.
C13_SinglePushReachesOneCohortWorker ==
    (/\ op.name \in {"push_to_input_queue", "push_to_output_queues"}
     /\ ~op.args.all_queues
     /\ pre.created # << >>)
        => /\ raised = "none"
           /\ Len(calls) = 1
           /\ calls[1].method = op.name
           /\ calls[1].data = op.args.data
           /\ calls[1].destination_worker = None
           /\ calls[1].source_worker = ExpectedSource
           /\ calls[1].source_worker \notin {None, ""}
           /\ calls[1].worker \in (IF SomeRunningAliveBefore
                                    THEN Range(pre.running)
                                    ELSE Range(pre.created))
           /\ created_workers = pre.created
           /\ running_workers = pre.running

\* a single push with an empty source_worker on a pool with two running
\* workers and one never started; the second running worker is chosen
C13_Witness ==
    /\ op.name \in {"push_to_input_queue", "push_to_output_queues"}
    /\ ~op.args.all_queues
    /\ op.args.source_worker = ""
    /\ SomeRunningAliveBefore
    /\ Len(pre.running) >= 2
    /\ \E w \in Range(pre.created) : w \notin Range(pre.running)
    /\ Len(calls) = 1
    /\ calls[1].worker = pre.running[2]

(* C14 *)

AllPushOperations == PushMethods \cup {"push_stop_signal", "push_wait_signal"}

\* what the last push operation sends, on which worker method, and whether
\* to every worker of the cohort
PushedData ==
    IF op.name = "push_stop_signal" THEN "stop"
    ELSE IF op.name = "push_wait_signal" THEN "wait"
    ELSE op.args.data

PushedMethod ==
    IF op.name \in PushMethods THEN op.name ELSE "push_to_input_queue"

IsBroadcast ==
    IF op.name \in PushMethods THEN op.args.all_queues ELSE TRUE

PushCalls == { i \in 1..Len(calls) : calls[i].method \in PushMethods }

\* C14: a push operation (push_stop_signal and push_wait_signal included)
\* called while the manager holds no worker is not an error: it first spawns
\* max_workers workers and starts none of them (running_workers stays
\* empty), then dispatches the envelope to them; a broadcast such as
\* push_stop_signal reaches the i-th spawned worker once, with the payload,
\* the resolved source (the manager's name by default) and destination
\* ppm-{STD_NAME}-{i}.  Stated for a bound worker class and max_workers >= 1.
C14_PushOnEmptyPoolSpawnsLazily ==
    (/\ op.name \in AllPushOperations /\ WORKER_CLASS # "None"
     /\ pre.created = << >> /\ pre.running = << >> /\ pre.max >= 1)
        => /\ raised = "none"
           /\ running_workers = << >>
           /\ created_workers =
                 [ i \in 1..pre.max |-> Len(pre.workers) + i ]
           /\ Len(workers) = Len(pre.workers) + pre.max
           /\ \A i \in 1..Len(created_workers) :
                 /\ workers[created_workers[i]].state = "Created"
                 /\ workers[created_workers[i]].starts = 0
                 /\ workers[created_workers[i]].name =
                        "ppm-" \o STD_NAME \o "-" \o ToString(i)
           /\ \A i \in 1..Len(calls) :
                 /\ calls[i].method # "start"
                 /\ calls[i].method = "concurrent_workers_names"
                       => \A j \in PushCalls : i < j
           /\ \A j \in PushCalls :
                 /\ calls[j].method = PushedMethod
                 /\ calls[j].data = PushedData
                 /\ calls[j].source_worker = ExpectedSource
                 /\ calls[j].worker \in Range(created_workers)
                 /\ calls[j].destination_worker =
                       IF IsBroadcast THEN workers[calls[j].worker].name ELSE None
           /\ IF IsBroadcast
              THEN \A w \in Range(created_workers) :
                     Cardinality({ j \in PushCalls : calls[j].worker = w }) = 1
              ELSE Cardinality(PushCalls) = 1

\* push_stop_signal() with the default source on a manager with
\* max_workers = 2 that holds no worker
C14_Witness ==
    /\ op.name = "push_stop_signal" /\ op.args.source_worker = None
    /\ WORKER_CLASS # "None"
    /\ pre.created = << >> /\ pre.running = << >> /\ pre.max = 2
    /\ Len(created_workers) = 2
    /\ Cardinality(PushCalls) = 2

(* C15 *)

\* the workers of the pool that were alive when the last operation began
PreLive == { w \in PreHeld : pre.workers[w].state = "Running" }

\* C15: within terminate() on a non-empty pool, global_exit_event is set
\* before the termination of any worker is requested, and "stop" is pushed
\* to the output channels only after every live worker has been terminated,
\* joined and removed from both lists.
C15_TerminateOrder ==
    (op.name = "terminate" /\ PreHeld # {})
        => /\ raised = "none"
           /\ global_exit_event
           /\ Cardinality({ i \in 1..Len(calls) :
                              calls[i].method = "global_exit_event.set" }) = 1
           /\ calls[1].method = "global_exit_event.set"
           /\ \A w \in PreLive :
                 /\ CallsOf("terminate", w) # {}
                 /\ CallsOf("join", w) # {}
                 /\ \A k \in CallsOf("terminate", w) :
                       \E j \in CallsOf("join", w) : k < j
                 /\ workers[w].state = "Terminated"
                 /\ ~InList(w, created_workers)
                 /\ ~InList(w, running_workers)
           /\ \A j \in PushCalls :
                 /\ calls[j].method = "push_to_output_queues"
                 /\ calls[j].data = "stop"
                 /\ calls[j].worker \notin PreLive
                 /\ \A i \in 1..Len(calls) :
                       calls[i].method \in {"terminate", "join"} => i < j

\* terminate() on a pool of two live workers and one never started, which
\* receives the "stop"
C15_Witness ==
    /\ op.name = "terminate"
    /\ Cardinality(PreLive) = 2
    /\ PreHeld \ PreLive # {}
    /\ PushCalls # {}

(* C16 *)

IsPushCall(c) == c.method \in PushMethods

\* the pushes the last operation made on workers, in order
PushSequence == SelectSeq(calls, IsPushCall)

\* start() went past its guards and the pool is not empty
StartProceeded ==
    /\ op.name = "start" /\ WORKER_CLASS # "None"
    /\ ~SomeRunningAliveBefore
    /\ created_workers # << >>

C17_DatasetEnvelopes ==
    StartProceeded
        => /\ \A j \in PushCalls : calls[j].source_worker = "ppm"
           /\ \A k \in 1..Len(input_datasets) :
                 \E j \in PushCalls :
                   /\ calls[j].destination_worker = None
                   /\ { i \in PushCalls :
                          /\ calls[i].method = "push_to_input_queue"
                          /\ calls[i].data = input_datasets[k] } = {j}
           /\ \A k \in 1..Len(output_datasets) :
                 \E j \in PushCalls :
                   /\ calls[j].destination_worker = None
                   /\ { i \in PushCalls :
                          /\ calls[i].method = "push_to_output_queues"
                          /\ calls[i].data = output_datasets[k] } = {j}
           /\ \A k \in 1..Len(configuration_datasets) : \A w \in Held :
                 \E j \in PushCalls :
                   /\ calls[j].destination_worker = workers[w].name
                   /\ { i \in PushCalls :
                          /\ calls[i].method = "push_to_configuration_queue"
                          /\ calls[i].data = configuration_datasets[k]
                          /\ calls[i].worker = w } = {j}

(* C18 *)

C19_MaxWorkersAtLeastOne == max_workers >= 1

(* C20 *)

\* C20: assigning v to max_workers gives the effective value max(1, v) when
\* v is an integer, and raises a type error when v is not, the previous
\* value staying in place.
C20_AssignmentClamps ==
    op.name = "max_workers"
        => IF op.args.value.type = "int"
           THEN /\ raised = "none"
                /\ max_workers = IF op.args.value.v >= 1 THEN op.args.value.v
                                  ELSE 1
           ELSE /\ raised = "TypeError"
                /\ max_workers = pre.max

\* -1 assigned to a manager whose max_workers was 2
C20_Witness ==
    /\ op.name = "max_workers"
    /\ op.args.value = [type |-> "int", v |-> -1]
    /\ pre.max = 2
    /\ max_workers = 1

(* C21 *)

\* C21: global_exit_event is monotonic: an operation of the manager (spawn,
\* start, push, terminate, wait, an assignment to max_workers) or a worker's
\* exit that begins with the event set ends with it set, and every worker
\* constructed by the operation holds that same event.
C21_ExitEventMonotonic ==
    (~Idle /\ op.name # "__init__" /\ pre.exit)
        => /\ global_exit_event
           /\ \A w \in (Len(pre.workers) + 1)..Len(workers) :
                 workers[w].global_exit_event = ManagerEvent

\* a worker spawned and started after terminate() has set the event
C21_Witness ==
    /\ op.name \in {"spawn_worker", "spawn_workers", "start"}
    /\ pre.exit
    /\ Len(workers) > Len(pre.workers)
    /\ workers[Len(workers)].state = "Running"

(* C22 *)

C24_TargetedProcessingAsSupplied ==
    /\ op.name = "__init__"
          => targeted_processing =
               IF op.args.targeted_processing.type = "bool"
               THEN op.args.targeted_processing.b
               ELSE TRUE
    /\ \A w \in Held : workers[w].targeted_processing = targeted_processing

(* C25 *)

\* C25: cpu_count is the host's CPU count minus 2 when the host has more
\* than 2 CPUs and the host's CPU count otherwise, and a manager constructed
\* with max_workers = None has max_workers equal to cpu_count.
C25_DefaultMaxWorkersIsCpuCount ==
    (op.name = "__init__" /\ op.args.max_workers.type = "none")
        => max_workers = IF op.args.available > 2
                         THEN op.args.available - 2
                         ELSE op.args.available

\* a manager constructed without max_workers on a host with 4 CPUs
C25_Witness ==
    /\ op.name = "__init__" /\ op.args.max_workers.type = "none"
    /\ op.args.available = 4
    /\ max_workers = 2

(* C26 *)

\* C26: terminate_worker(w) requests the termination of w exactly once, then
\* joins it exactly once, then removes w from created_workers and from
\* running_workers; every other worker stays in the lists it was in and has
\* neither terminate nor join invoked.
C26_TerminateWorkerFrame ==
    op.name = "terminate_worker"
        => LET w == op.args.worker
           IN  /\ raised = "none"
               /\ Len(calls) = 2
               /\ calls[1].method = "terminate" /\ calls[1].worker = w
               /\ calls[2].method = "join" /\ calls[2].worker = w
               /\ ~InList(w, created_workers)
               /\ ~InList(w, running_workers)
               /\ created_workers =
                     SelectSeq(pre.created, LAMBDA x : x # w)
               /\ running_workers =
                     SelectSeq(pre.running, LAMBDA x : x # w)
               /\ \A v \in 1..Len(workers) :
                     v # w => workers[v] = pre.workers[v]

(* C27 *)

\* the workers of the pool that were not alive when the last operation began
PreNotAlive == PreHeld \ PreLive

\* C27: terminate() skips a worker that is not alive: it neither requests
\* its termination (nor joins it) nor removes it from created_workers or
\* running_workers, and it still pushes "stop" with all_queues = true
\* afterwards, that is to every entry of the cohort, after the last
\* terminate and join.
C27_TerminateSkipsDeadWorkers ==
    op.name = "terminate"
        => /\ \A w \in PreNotAlive :
                 /\ CallsOf("terminate", w) = {}
                 /\ CallsOf("join", w) = {}
                 /\ Count(w, created_workers) = Count(w, pre.created)
                 /\ Count(w, running_workers) = Count(w, pre.running)
                 /\ workers[w] = pre.workers[w]
           /\ raised = "none"
                 => /\ \A w \in 1..Len(workers) :
                          Cardinality(CallsOf("push_to_output_queues", w))
                              = Count(w, Cohort)
                    /\ \A j \in PushCalls :
                          /\ calls[j].method = "push_to_output_queues"
                          /\ calls[j].data = "stop"
                          /\ calls[j].destination_worker =
                                workers[calls[j].worker].name
                          /\ \A i \in 1..Len(calls) :
                                calls[i].method \in {"terminate", "join"}
                                    => i < j

\* terminate() on a pool with a live worker, a worker that has exited and a
\* worker never started; the last two receive the "stop"
C27_Witness ==
    /\ op.name = "terminate"
    /\ PreLive # {}
    /\ \E w \in PreNotAlive : pre.workers[w].state = "Terminated"
    /\ \E w \in PreNotAlive : pre.workers[w].state = "Created"
    /\ Cardinality(PushCalls) >= 2

(* C28 *)

\* the names, as they were when the last operation began, of the workers of
\* a list
PreNamesOf(list) == [ i \in 1..Len(list) |-> pre.workers[list[i]].name ]

\* C28: a newly spawned worker's concurrent_workers_names is a snapshot taken
\* before the worker is added to the pool: the names of created_workers when
\* some running worker is alive at spawn time, the names of running_workers
\* otherwise; so it never contains the worker's own name.
C28_ConcurrentNamesSnapshot ==
    (op.name = "spawn_worker" /\ raised = "none" /\ ret # 0)
        => /\ Cardinality(CallsOf("concurrent_workers_names", ret)) = 1
           /\ \A i \in CallsOf("concurrent_workers_names", ret) :
                 /\ calls[i].names = IF SomeRunningAliveBefore
                                      THEN PreNamesOf(pre.created)
                                      ELSE PreNamesOf(pre.running)
                 /\ \A k \in 1..Len(calls[i].names) :
                       calls[i].names[k] # workers[ret].name

(* C29 *)

\* C29: over any sequence of operations, start is invoked at most once on
\* each worker and running_workers never lists the same worker twice, also
\* when start() is called again after every started worker has stopped
\* being alive.
C29_StartedOnceListedOnce ==
    \A w \in Held :
        /\ workers[w].starts <= 1
        /\ Count(w, running_workers) <= 1

(* C30 *)

\* C30: in every reachable state, wait() and terminate() either return
\* normally or raise a worker's stored error, and fail with no other error
\* (such as the one of removing from created_workers a worker that is not in
\* it).  Stated for a bound worker class.
C30_WaitAndTerminateRaiseOnlyWorkerErrors ==
    (op.name \in {"wait", "terminate"} /\ WORKER_CLASS # "None")
        => raised \in {"none", "WorkerError"}

(* C23 *)

====
